---- MODULE Spec2Model ----
(***************************************************************************)
(* leventeliu/goproc: TimeoutChan (timeout_chan.go), the PriorityQueue it  *)
(* is built on and the BackgroundController that runs its two processes.   *)
(*                                                                         *)
(* Goroutines are the elements of Procs.  Every step of a goroutine that   *)
(* can block (a mutex acquisition, a channel operation, a WaitGroup wait)  *)
(* is one action; an unbuffered channel send/receive is a joint step of    *)
(* the sender and the receiver.  A panic in any goroutine ends the         *)
(* program: it is recorded in fault and no action is enabled afterwards    *)
(* (every action has the conjunct fault = NoFault).                         *)
(***************************************************************************)
EXTENDS Integers, Sequences, FiniteSets, TLC

\* ---------------------------------------------------------------- bounds
MaxPush == 2        \* items created by the producers over a run
MaxDeadline == 1    \* deadlines are drawn from 0..MaxDeadline
MaxTime == 1        \* the clock runs over 0..MaxTime
MaxClear == 1       \* calls of Clear over a run
MaxRemaining == 10  \* the time left to a deadline is drawn from 1..MaxRemaining
MaxResolution == 5  \* a resolution is drawn from 0..MaxResolution
MaxHeap == 4        \* items in a PriorityQueue used on its own
MaxPriority == 2    \* priorities are drawn from 0..MaxPriority

\* ------------------------------------------- parameters of NewTimeoutChan
Cap == 2            \* limit is drawn from 0..Cap (0: unlimited)
Resolution == 1     \* resolution

Producers == {"p1", "p2"}
Sender == "p1"          \* the producer that writes to In
Caller == "p2"          \* the producer that calls Push
Intake == "intake"      \* the goroutine running pushProcess
Release == "release"    \* the goroutine running popProcess
Main == "main"          \* the goroutine calling Clear, Close, Shutdown
Consumer == "consumer"  \* the goroutine ranging over Out
Pushers == Producers \cup {Intake}
Procs == Pushers \cup {Release, Main, Consumer}

NoItem == -1
NoLock == "none"
NoFault == "none"

\* the Controller family: the handle NewController returns, the slots of the
\* handles derived from it, the slots of its workers, the goroutines calling it
Origin == "c"
Handles == {Origin, "d1", "d2"}
Workers == {"w1", "w2"}
Spawner == "g1"     \* the goroutine calling Go, GoWithRecover and With...
Stopper == "g2"     \* the goroutine calling Shutdown and Wait
Clients == {Spawner, Stopper}
NoDeadline == -1
Canceled == "context canceled"
DeadlineExceeded == "context deadline exceeded"
GoOps == {"Go", "GoWithRecover"}
WithOps == {"WithValue", "WithDeadline", "WithTimeout"}
Goroutines == {"hang", "work"}

VARIABLES
    limit,       \* TimeoutChan.limit
    pq,          \* TimeoutChan.pq.heap: the deadlines, in array order
    pushed, popped, cleared,   \* the TimeoutChan counters
    mu,          \* TimeoutChan.mu: the goroutine holding the write lock (the
                 \* read-locked sections len and peek block nowhere inside:
                 \* each is one action, enabled while no writer holds mu)
    pc,          \* the position of every goroutine
    item,        \* the Deadliner a pusher holds (its deadline)
    deferred,    \* the deferred notice of the critical section a goroutine is in
    held,        \* the Deadliner popProcess popped and is sending on out
    resched,     \* TRUE when the reschedule channel read by the last peek is closed
    timerAt,     \* the time at which popProcess's timer fires
    peeked,      \* the deadline popProcess read in its last peek while it
                 \* is in the loop iteration of that peek, else NoItem
    now,         \* time.Now()
    inClosed, outClosed, closePushClosed, noticesClosed,  \* closed channels
    pushCtrl, popCtrl,   \* the BackgroundControllers: [cancelled, wg]
    outerDone,   \* the ctx given to NewTimeoutChan is cancelled
    outList,     \* the deadlines the consumer received from Out
    made,        \* the number of items the producers created
    clears,      \* the number of Clear calls
    clearRet,    \* what the last Clear returned (NoItem before)
    atClose,     \* [pushed, cleared] when Close or Shutdown was called
    pastPush,    \* an item was inserted after its deadline had passed
    fault,       \* the panic that ended the program
    family,      \* the Controller family the program made, <<>> if none:
                 \* [handles, workers, calls, wg]
    spin,        \* the spinning sub-phase of a release process taken alone,
                 \* <<>> if none: [pc, delta, resolution, wait]
    prio         \* a PriorityQueue used on its own, <<>> if none:
                 \* [desc, heap, op, ret], op the last call and ret its result

vars == <<limit, pq, pushed, popped, cleared, mu, pc, item, deferred, held,
          resched, timerAt, peeked, now, inClosed, outClosed, closePushClosed,
          noticesClosed, pushCtrl, popCtrl, outerDone, outList, made, clears,
          clearRet, atClose, pastPush, fault, family, spin, prio>>

\* Controller.ctx of every handle of the family: [live, parent, dl, timer, err]
handles == family.handles
\* the goroutines started by Go and GoWithRecover: [pc, h, g]
workers == family.workers
\* the Controller method each client goroutine is in
calls == family.calls
\* Controller.wg, shared by the family
wg == family.wg

\* ---------------------------------------------------------- PriorityQueue
\* a plausible slip: the comparison of ge
ltFlipped(a, b) == b < a

lt(a, b) == a < b
ge(a, b) == b < a

\* PriorityQueue.Less on 0-based indices; desc selects ge
Less(desc, h, i, j) == IF desc THEN ge(h[i + 1], h[j + 1]) ELSE lt(h[i + 1], h[j + 1])

Swap(h, i, j) == [h EXCEPT ![i + 1] = h[j + 1], ![j + 1] = h[i + 1]]

\* a plausible slip: heap.Push that appends and never sifts the new item up
upNoSift(desc, h, j) == h

\* container/heap.up
RECURSIVE up(_, _, _)
up(desc, h, j) ==
    IF j = 0 THEN h
    ELSE LET i == (j - 1) \div 2 IN
         IF ~Less(desc, h, j, i) THEN h ELSE up(desc, Swap(h, i, j), i)

\* container/heap.down
RECURSIVE down(_, _, _, _)
down(desc, h, i, n) ==
    LET j1 == 2 * i + 1 IN
    IF j1 >= n THEN h
    ELSE LET j == IF j1 + 1 < n /\ Less(desc, h, j1 + 1, j1) THEN j1 + 1 ELSE j1 IN
         IF ~Less(desc, h, j, i) THEN h ELSE down(desc, Swap(h, i, j), j, n)

\* heap.Push(pq, x): PriorityQueue.Push appends, then up
HeapPush(desc, h, x) == up(desc, Append(h, x), Len(h))

\* a plausible slip: PriorityQueue.Pop returns the last item and leaves it
HeapPopKeep(desc, h) ==
    LET n == Len(h) - 1
        h2 == down(desc, Swap(h, 0, n), 0, n)
    IN [item |-> h2[n + 1], heap |-> h2]

\* heap.Pop(pq): swap first and last, down, then PriorityQueue.Pop takes the last
HeapPop(desc, h) ==
    LET n == Len(h) - 1
        h2 == down(desc, Swap(h, 0, n), 0, n)
    IN [item |-> h2[n + 1], heap |-> SubSeq(h2, 1, n)]

\* PriorityQueue.Peek
Peek(h) == h[1]

\* a plausible slip: the length is read after the truncation
PqClearLate(h) == [l |-> 0, heap |-> <<>>]

\* PriorityQueue.Clear: the length it returns and the heap it leaves
PqClear(h) == [l |-> Len(h), heap |-> <<>>]

\* ------------------------------------------------------ BackgroundController
\* NewBackgroundController(ctx, name) followed by GoBackground: one worker
NewCtrl == [cancelled |-> FALSE, wg |-> 1]

\* ctx.Done() as seen by a worker: its controller's cancel or the parent's
Done(ctrl) == ctrl.cancelled \/ outerDone

\* c.cancel()
Cancel(ctrl) == [ctrl EXCEPT !.cancelled = TRUE]

\* the worker's deferred c.wg.Done()
WgDone(ctrl) == [ctrl EXCEPT !.wg = ctrl.wg - 1]

\* a plausible slip: Shutdown and WaitExit return without c.wg.Wait()
ExitedNoWait(ctrl) == TRUE

\* c.wg.Wait() returns
Exited(ctrl) == ctrl.wg = 0

\* NewController: one live handle on a fresh context, no worker
InitFamily ==
    family =
      [handles |-> [h \in Handles |->
                      [live |-> h = Origin, parent |-> Origin, dl |-> NoDeadline,
                       timer |-> FALSE, err |-> NoFault]],
       workers |-> [w \in Workers |->
                      [pc |-> "none", h |-> Origin, g |-> "hang"]],
       calls |-> [c \in Clients |->
                    [pc |-> "idle", op |-> "none", h |-> Origin, g |-> "hang",
                     seen |-> {}, ret |-> "none"]],
       wg |-> 0]

\* a program that makes no Controller
NoFamily == family = <<>>

\* a program that runs no spinning sub-phase on its own
NoSpin == spin = <<>>
\* a program that uses no PriorityQueue on its own
NoPrio == prio = <<>>

\* -------------------------------------------------------------------- Init
\* NewTimeoutChan
InitQueue ==
    /\ limit \in 0..Cap
    /\ pq = <<>>
    /\ pushed = 0 /\ popped = 0 /\ cleared = 0
    /\ mu = NoLock
    /\ pc = [p \in Procs |->
                CASE p \in Producers -> "idle"
                  [] p = Intake -> "work"
                  [] p = Release -> "suspend"
                  [] p = Main -> "idle"
                  [] OTHER -> "recv"]
    /\ item = [p \in Pushers |-> NoItem]
    /\ deferred = [p \in Procs |-> "none"]
    /\ held = NoItem
    /\ resched = FALSE
    /\ timerAt = 0
    /\ peeked = NoItem
    /\ now = 0
    /\ inClosed = FALSE /\ outClosed = FALSE
    /\ closePushClosed = FALSE /\ noticesClosed = FALSE
    /\ pushCtrl = NewCtrl /\ popCtrl = NewCtrl
    /\ outerDone = FALSE
    /\ outList = <<>>
    /\ made = 0
    /\ clears = 0
    /\ clearRet = NoItem
    /\ atClose = [pushed |-> NoItem, cleared |-> NoItem]
    /\ pastPush = FALSE
    /\ fault = NoFault

Init == InitQueue /\ NoFamily /\ NoSpin /\ NoPrio


\* ------------------------------------------------------------------ frames
counters == <<pushed, popped, cleared>>
chans == <<inClosed, outClosed, closePushClosed, noticesClosed>>
ctrls == <<pushCtrl, popCtrl, outerDone>>
history == <<clears, clearRet, atClose, pastPush>>
timer == <<resched, timerAt, now>>
queue == <<limit, pq, counters, mu, pc, item, deferred, held, resched, timerAt,
           peeked, chans, pushCtrl, popCtrl, outList, made, history>>

\* ------------------------------------------------------ TimeoutChan.push
\* a plausible slip: push that never sends the reschedule notice
PushNoticeNoReschedule(h, d) == IF Len(h) = 0 THEN "resumePop" ELSE "none"

\* the deferred notice push registers before it inserts d into heap h
PushNotice(h, d) ==
    IF Len(h) = 0 THEN "resumePop"
    ELSE IF d < Peek(h) THEN "reschedule" ELSE "none"

\* where a goroutine continues when its call of push returns
AfterPush(p) == IF p = Intake THEN "len" ELSE "idle"

\* c.mu.Lock(), the test on the heap, heap.Push
PushLock(p) ==
    /\ fault = NoFault
    /\ pc[p] = "push_lock"
    /\ mu = NoLock
    /\ mu' = p
    /\ deferred' = [deferred EXCEPT ![p] = PushNotice(pq, item[p])]
    /\ pq' = HeapPush(FALSE, pq, item[p])
    /\ pc' = [pc EXCEPT ![p] = "push_cnt"]
    /\ pastPush' = (pastPush \/ item[p] < now)
    /\ UNCHANGED <<limit, family, spin, prio, peeked, counters, item, held, timer, chans, ctrls, outList,
                   made, clears, clearRet, atClose, fault>>

\* c.pushed++ and the return: the deferred reschedule notice (close and
\* replace) and Unlock, or the deferred send on resumePop, which blocks
PushCount(p) ==
    /\ fault = NoFault
    /\ pc[p] = "push_cnt"
    /\ pushed' = pushed + 1
    /\ IF deferred[p] = "resumePop"
       THEN /\ pc' = [pc EXCEPT ![p] = "push_send"]
            /\ UNCHANGED <<mu, deferred, item, resched, fault>>
       ELSE IF deferred[p] = "reschedule" /\ noticesClosed
       THEN /\ fault' = "close of closed channel"
            /\ UNCHANGED <<mu, deferred, item, resched, pc>>
       ELSE /\ resched' = (resched \/ deferred[p] = "reschedule")
            /\ mu' = NoLock
            /\ deferred' = [deferred EXCEPT ![p] = "none"]
            /\ item' = [item EXCEPT ![p] = NoItem]
            /\ pc' = [pc EXCEPT ![p] = AfterPush(p)]
            /\ UNCHANGED fault
    /\ UNCHANGED <<limit, family, spin, prio, peeked, pq, popped, cleared, held, timerAt, now, chans, ctrls,
                   outList, made, history>>

\* c.resumePop <- nil received by popProcess in its suspending phase, then
\* Unlock; on a closed resumePop the send panics
PushSend(p) ==
    /\ fault = NoFault
    /\ pc[p] = "push_send"
    /\ IF noticesClosed
       THEN /\ fault' = "send on closed channel"
            /\ UNCHANGED <<mu, deferred, item, pc>>
       ELSE /\ pc[Release] = "suspend"
            /\ mu' = NoLock
            /\ deferred' = [deferred EXCEPT ![p] = "none"]
            /\ item' = [item EXCEPT ![p] = NoItem]
            /\ pc' = [pc EXCEPT ![p] = AfterPush(p), ![Release] = "peek"]
            /\ UNCHANGED fault
    /\ UNCHANGED <<limit, family, spin, prio, peeked, pq, counters, held, timer, chans, ctrls, outList,
                   made, history>>

\* -------------------------------------------------------------- producers
\* TimeoutChan.In <- in: a goroutine offers an item on the intake channel
InSend(p, d) ==
    /\ fault = NoFault
    /\ pc[p] = "idle"
    /\ made < MaxPush
    /\ ~inClosed
    /\ made' = made + 1
    /\ item' = [item EXCEPT ![p] = d]
    /\ pc' = [pc EXCEPT ![p] = "send"]
    /\ UNCHANGED <<limit, family, spin, prio, peeked, pq, counters, mu, deferred, held, timer, chans, ctrls,
                   outList, history, fault>>

\* c.In <- in by the sender, and by the caller of Push when limit > 0
ProducerSend(p, d) ==
    /\ p = Sender \/ limit > 0
    /\ InSend(p, d)

\* Push on an unlimited TimeoutChan: c.push(in)
ProducerPush(p, d) ==
    /\ fault = NoFault
    /\ pc[p] = "idle"
    /\ p = Caller
    /\ made < MaxPush
    /\ ~inClosed
    /\ limit = 0
    /\ made' = made + 1
    /\ item' = [item EXCEPT ![p] = d]
    /\ pc' = [pc EXCEPT ![p] = "push_lock"]
    /\ UNCHANGED <<limit, family, spin, prio, peeked, pq, counters, mu, deferred, held, timer, chans, ctrls,
                   outList, history, fault>>

\* a send on In after In was closed panics
ProducerSendClosed(p) ==
    /\ fault = NoFault
    /\ pc[p] = "send"
    /\ inClosed
    /\ fault' = "send on closed channel"
    /\ UNCHANGED <<limit, family, spin, prio, peeked, pq, counters, mu, pc, item, deferred, held, timer,
                   chans, ctrls, outList, made, history>>

\* ------------------------------------------------ TimeoutChan.pushProcess
\* working phase, case in, ok := <-c.in with ok: the producer's send completes
IntakeRecv(p) ==
    /\ fault = NoFault
    /\ pc[Intake] = "work"
    /\ pc[p] = "send"
    /\ ~inClosed
    /\ item' = [item EXCEPT ![Intake] = item[p], ![p] = NoItem]
    /\ pc' = [pc EXCEPT ![Intake] = "push_lock", ![p] = "idle"]
    /\ UNCHANGED <<limit, family, spin, prio, peeked, pq, counters, mu, deferred, held, timer, chans, ctrls,
                   outList, made, history, fault>>

\* working phase, case <-c.in with !ok: return (wg.Done)
IntakeInClosed ==
    /\ fault = NoFault
    /\ pc[Intake] = "work"
    /\ inClosed
    /\ pc' = [pc EXCEPT ![Intake] = "done"]
    /\ pushCtrl' = WgDone(pushCtrl)
    /\ UNCHANGED <<limit, family, spin, prio, peeked, pq, counters, mu, item, deferred, held, timer, chans,
                   popCtrl, outerDone, outList, made, history, fault>>

\* either phase, case <-ctx.Done(): return (wg.Done)
IntakeCancelled ==
    /\ fault = NoFault
    /\ pc[Intake] \in {"work", "suspend"}
    /\ Done(pushCtrl)
    /\ pc' = [pc EXCEPT ![Intake] = "done"]
    /\ pushCtrl' = WgDone(pushCtrl)
    /\ UNCHANGED <<limit, family, spin, prio, peeked, pq, counters, mu, item, deferred, held, timer, chans,
                   popCtrl, outerDone, outList, made, history, fault>>

\* a plausible slip: <= for <
HasRoomOffByOne(n) == limit = 0 \/ n <= limit

\* c.limit == 0 || c.len() < c.limit
HasRoom(n) == limit = 0 \/ n < limit

\* c.len() under the read lock; with room continue, else the suspending phase
IntakeLen ==
    /\ fault = NoFault
    /\ pc[Intake] = "len"
    /\ mu = NoLock
    /\ pc' = [pc EXCEPT ![Intake] =
                 IF HasRoom(Len(pq)) THEN "work" ELSE "suspend"]
    /\ UNCHANGED <<limit, family, spin, prio, peeked, pq, counters, mu, item, deferred, held, timer, chans,
                   ctrls, outList, made, history, fault>>

\* c.resumePush <- nil (deferred in pop or in Clear) received by pushProcess
\* in its suspending phase; the sender then unlocks and returns
ResumePushSend(s) ==
    /\ fault = NoFault
    /\ pc[s] = (IF s = Release THEN "pop_send" ELSE "clear_send")
    /\ pc[Intake] = "suspend"
    /\ ~noticesClosed
    /\ mu' = NoLock
    /\ deferred' = [deferred EXCEPT ![s] = "none"]
    /\ pc' = [pc EXCEPT ![Intake] = "work",
                        ![s] = IF s = Release THEN "out_send" ELSE "idle"]
    /\ UNCHANGED <<limit, family, spin, prio, peeked, pq, counters, item, held, timer, chans, ctrls,
                   outList, made, history, fault>>

\* ------------------------------------------------- TimeoutChan.popProcess
\* suspending phase, case <-c.closePush
ReleaseClosePush ==
    /\ fault = NoFault
    /\ pc[Release] = "suspend"
    /\ closePushClosed
    /\ pc' = [pc EXCEPT ![Release] = "close_len"]
    /\ UNCHANGED <<limit, family, spin, prio, peeked, pq, counters, mu, item, deferred, held, timer, chans,
                   ctrls, outList, made, history, fault>>

\* a plausible slip: the release process goes on without the test on c.len()
IsEmptyNever(h) == FALSE

\* c.len() == 0 as the release process tests it before it peeks again
IsEmpty(h) == Len(h) = 0

\* if c.len() == 0 { return } after the close-intake notice
ReleaseCloseLen ==
    /\ fault = NoFault
    /\ pc[Release] = "close_len"
    /\ mu = NoLock
    /\ IF IsEmpty(pq)
       THEN /\ pc' = [pc EXCEPT ![Release] = "done"]
            /\ popCtrl' = WgDone(popCtrl)
       ELSE /\ pc' = [pc EXCEPT ![Release] = "peek"]
            /\ UNCHANGED popCtrl
    /\ UNCHANGED <<limit, family, spin, prio, peeked, pq, counters, mu, item, deferred, held, timer, chans,
                   pushCtrl, outerDone, outList, made, history, fault>>

\* case <-ctx.Done() of the three selects: return (wg.Done); an item already
\* popped for the send on out is dropped
ReleaseCancelled ==
    /\ fault = NoFault
    /\ pc[Release] \in {"suspend", "out_send", "wait"}
    /\ Done(popCtrl)
    /\ pc' = [pc EXCEPT ![Release] = "done"]
    /\ popCtrl' = WgDone(popCtrl)
    /\ held' = NoItem
    /\ peeked' = NoItem
    /\ UNCHANGED <<limit, family, spin, prio, pq, counters, mu, item, deferred, timer, chans,
                   pushCtrl, outerDone, outList, made, history, fault>>

\* Go's integer division truncates toward zero
GoDiv(a, b) == IF a >= 0 THEN a \div b ELSE -((-a) \div b)

\* a plausible slip: the smaller of half the time left and the resolution
SpinMin(delta, resolution) ==
    IF GoDiv(delta, 2) < resolution THEN GoDiv(delta, 2) ELSE resolution

\* the spinning sub-phase: the timer interval for the time delta left to
\* the first deadline under a resolution
SpinFor(delta, resolution) ==
    LET d == GoDiv(delta, 2) IN
    IF d > resolution THEN d
    ELSE IF delta > resolution THEN resolution ELSE delta

\* the spinning sub-phase's timer interval of the TimeoutChan for a peeked delta
SpinDelta(delta) == SpinFor(delta, Resolution)

\* a plausible slip: the deadline counts as reached within the resolution
ElapsedWithin(delta) == delta <= Resolution

\* delta <= 0: the first deadline is reached
Elapsed(delta) == delta <= 0

\* c.peek() under the read lock: the reschedule channel and the time left to
\* the first deadline; delta <= 0 goes on to pop, otherwise the timer starts
ReleasePeek ==
    /\ fault = NoFault
    /\ pc[Release] = "peek"
    /\ mu = NoLock
    /\ IF Len(pq) = 0
       THEN /\ fault' = "index out of range"
            /\ UNCHANGED <<pc, resched, timerAt, peeked>>
       ELSE LET delta == Peek(pq) - now IN
            /\ resched' = noticesClosed
            /\ peeked' = Peek(pq)
            /\ IF Elapsed(delta)
               THEN /\ pc' = [pc EXCEPT ![Release] = "pop_lock"]
                    /\ UNCHANGED timerAt
               ELSE /\ pc' = [pc EXCEPT ![Release] = "wait"]
                    /\ timerAt' = now + SpinDelta(delta)
            /\ UNCHANGED fault
    /\ UNCHANGED <<limit, family, spin, prio, pq, counters, mu, item, deferred, held, now, chans,
                   ctrls, outList, made, history>>

\* the deferred notice pop registers for heap h
PopNotice(h) == IF limit > 0 /\ Len(h) = limit THEN "resumePush" ELSE "none"

\* c.pop(): c.mu.Lock(), the test on the heap, c.popped++
ReleasePopLock ==
    /\ fault = NoFault
    /\ pc[Release] = "pop_lock"
    /\ mu = NoLock
    /\ mu' = Release
    /\ deferred' = [deferred EXCEPT ![Release] = PopNotice(pq)]
    /\ popped' = popped + 1
    /\ pc' = [pc EXCEPT ![Release] = "pop_heap"]
    /\ UNCHANGED <<limit, family, spin, prio, peeked, pq, pushed, cleared, item, held, timer, chans, ctrls,
                   outList, made, history, fault>>

\* heap.Pop(c.pq) and the return: Unlock, or the deferred send on resumePush
ReleasePopHeap ==
    /\ fault = NoFault
    /\ pc[Release] = "pop_heap"
    /\ IF Len(pq) = 0
       THEN /\ fault' = "index out of range"
            /\ UNCHANGED <<pq, held, mu, deferred, pc>>
       ELSE /\ held' = HeapPop(FALSE, pq).item
            /\ pq' = HeapPop(FALSE, pq).heap
            /\ IF deferred[Release] = "resumePush"
               THEN /\ pc' = [pc EXCEPT ![Release] = "pop_send"]
                    /\ UNCHANGED <<mu, deferred>>
               ELSE /\ pc' = [pc EXCEPT ![Release] = "out_send"]
                    /\ mu' = NoLock
                    /\ UNCHANGED deferred
            /\ UNCHANGED fault
    /\ UNCHANGED <<limit, family, spin, prio, peeked, counters, item, timer, chans, ctrls, outList, made,
                   history>>

\* case c.out <- c.pop(): the consumer receives the item
ReleaseOut ==
    /\ fault = NoFault
    /\ pc[Release] = "out_send"
    /\ pc[Consumer] = "recv"
    /\ outList' = Append(outList, held)
    /\ held' = NoItem
    /\ pc' = [pc EXCEPT ![Release] = "after_len"]
    /\ UNCHANGED <<limit, family, spin, prio, peeked, pq, counters, mu, item, deferred, timer, chans, ctrls,
                   made, history, fault>>

\* if c.len() == 0 { break outerLoop }; otherwise the spinning sub-phase
\* with the delta <= 0 of the last peek: the timer fires at once
ReleaseAfterLen ==
    /\ fault = NoFault
    /\ pc[Release] = "after_len"
    /\ mu = NoLock
    /\ IF IsEmpty(pq)
       THEN /\ pc' = [pc EXCEPT ![Release] = "suspend"]
            /\ peeked' = NoItem
            /\ UNCHANGED timerAt
       ELSE /\ pc' = [pc EXCEPT ![Release] = "wait"]
            /\ timerAt' = now
            /\ UNCHANGED peeked
    /\ UNCHANGED <<limit, family, spin, prio, pq, counters, mu, item, deferred, held, resched, now,
                   chans, ctrls, outList, made, history, fault>>

\* spinning sub-phase, case <-reschedule
ReleaseRescheduled ==
    /\ fault = NoFault
    /\ pc[Release] = "wait"
    /\ resched
    /\ pc' = [pc EXCEPT ![Release] = "peek"]
    /\ peeked' = NoItem
    /\ UNCHANGED <<limit, family, spin, prio, pq, counters, mu, item, deferred, held, timer, chans,
                   ctrls, outList, made, history, fault>>

\* spinning sub-phase, case <-timer.C
ReleaseTimer ==
    /\ fault = NoFault
    /\ pc[Release] = "wait"
    /\ now >= timerAt
    /\ pc' = [pc EXCEPT ![Release] = "peek"]
    /\ peeked' = NoItem
    /\ UNCHANGED <<limit, family, spin, prio, pq, counters, mu, item, deferred, held, timer, chans,
                   ctrls, outList, made, history, fault>>

\* ---------------------------------------------------------------- consumer
\* for item := range tc.Out ends when Out is closed
ConsumerEnd ==
    /\ fault = NoFault
    /\ pc[Consumer] = "recv"
    /\ outClosed
    /\ pc' = [pc EXCEPT ![Consumer] = "done"]
    /\ UNCHANGED <<limit, family, spin, prio, peeked, pq, counters, mu, item, deferred, held, timer, chans,
                   ctrls, outList, made, history, fault>>

\* ------------------------------------------------------- TimeoutChan.Clear
\* c.mu.Lock() and the cancel of c.pushCtrl.Shutdown()
ClearLock ==
    /\ fault = NoFault
    /\ pc[Main] = "idle"
    /\ clears < MaxClear
    /\ mu = NoLock
    /\ mu' = Main
    /\ clears' = clears + 1
    /\ pushCtrl' = Cancel(pushCtrl)
    /\ pc' = [pc EXCEPT ![Main] = "clear_wait_push"]
    /\ UNCHANGED <<limit, family, spin, prio, peeked, pq, counters, item, deferred, held, timer, chans,
                   popCtrl, outerDone, outList, made, clearRet, atClose, pastPush,
                   fault>>

\* the wg.Wait() of c.pushCtrl.Shutdown(), then the cancel of c.popCtrl.Shutdown()
ClearWaitPush ==
    /\ fault = NoFault
    /\ pc[Main] = "clear_wait_push"
    /\ Exited(pushCtrl)
    /\ popCtrl' = Cancel(popCtrl)
    /\ pc' = [pc EXCEPT ![Main] = "clear_wait_pop"]
    /\ UNCHANGED <<limit, family, spin, prio, peeked, pq, counters, mu, item, deferred, held, timer, chans,
                   pushCtrl, outerDone, outList, made, history, fault>>

\* the deferred notice Clear registers after removing l items
ClearNotice(l) == IF limit > 0 /\ l = limit THEN "resumePush" ELSE "none"

\* the wg.Wait() of c.popCtrl.Shutdown(), then l := c.pq.Clear()
ClearWaitPop ==
    /\ fault = NoFault
    /\ pc[Main] = "clear_wait_pop"
    /\ Exited(popCtrl)
    /\ clearRet' = PqClear(pq).l
    /\ pq' = PqClear(pq).heap
    /\ deferred' = [deferred EXCEPT ![Main] = ClearNotice(PqClear(pq).l)]
    /\ pc' = [pc EXCEPT ![Main] = "clear_cnt"]
    /\ UNCHANGED <<limit, family, spin, prio, peeked, counters, mu, item, held, timer, chans, ctrls, outList,
                   made, clears, atClose, pastPush, fault>>

\* c.cleared += l, the new controllers and processes (GoBackground panics on
\* a cancelled context), and the return: Unlock, or the deferred send
ClearCount ==
    /\ fault = NoFault
    /\ pc[Main] = "clear_cnt"
    /\ cleared' = cleared + clearRet
    /\ IF outerDone
       THEN /\ fault' = "context canceled"
            /\ UNCHANGED <<pushCtrl, popCtrl, pc, mu, deferred, resched, timerAt>>
       ELSE /\ pushCtrl' = NewCtrl
            /\ popCtrl' = NewCtrl
            /\ resched' = FALSE
            /\ timerAt' = 0
            /\ IF deferred[Main] = "resumePush"
               THEN /\ pc' = [pc EXCEPT ![Main] = "clear_send",
                                        ![Intake] = "work", ![Release] = "suspend"]
                    /\ UNCHANGED mu
               ELSE /\ pc' = [pc EXCEPT ![Main] = "idle",
                                        ![Intake] = "work", ![Release] = "suspend"]
                    /\ mu' = NoLock
            /\ UNCHANGED <<deferred, fault>>
    /\ UNCHANGED <<limit, family, spin, prio, peeked, pq, pushed, popped, item, held, now, chans, outerDone,
                   outList, made, clears, clearRet, atClose, pastPush>>

\* ------------------------------------------------------- TimeoutChan.Close
\* close(c.in)
CloseIn ==
    /\ fault = NoFault
    /\ pc[Main] = "idle"
    /\ inClosed' = TRUE
    /\ atClose' = [pushed |-> pushed, cleared |-> cleared]
    /\ pc' = [pc EXCEPT ![Main] = "close_wait_push"]
    /\ UNCHANGED <<limit, family, spin, prio, peeked, pq, counters, mu, item, deferred, held, timer,
                   outClosed, closePushClosed, noticesClosed, ctrls, outList,
                   made, clears, clearRet, pastPush, fault>>

\* c.pushCtrl.WaitExit(), close(c.closePush)
CloseWaitPush ==
    /\ fault = NoFault
    /\ pc[Main] = "close_wait_push"
    /\ Exited(pushCtrl)
    /\ pushCtrl' = Cancel(pushCtrl)
    /\ closePushClosed' = TRUE
    /\ pc' = [pc EXCEPT ![Main] = "close_wait_pop"]
    /\ UNCHANGED <<limit, family, spin, prio, peeked, pq, counters, mu, item, deferred, held, timer,
                   inClosed, outClosed, noticesClosed, popCtrl, outerDone,
                   outList, made, history, fault>>

\* c.popCtrl.WaitExit(), close(c.out), close of the three notice channels
CloseWaitPop ==
    /\ fault = NoFault
    /\ pc[Main] = "close_wait_pop"
    /\ Exited(popCtrl)
    /\ popCtrl' = Cancel(popCtrl)
    /\ outClosed' = TRUE
    /\ noticesClosed' = TRUE
    /\ resched' = TRUE
    /\ pc' = [pc EXCEPT ![Main] = "closed"]
    /\ UNCHANGED <<limit, family, spin, prio, peeked, pq, counters, mu, item, deferred, held, timerAt, now,
                   inClosed, closePushClosed, pushCtrl, outerDone, outList,
                   made, history, fault>>

\* ---------------------------------------------------- TimeoutChan.Shutdown
\* close(c.in) and the cancel of c.pushCtrl.Shutdown()
ShutdownIn ==
    /\ fault = NoFault
    /\ pc[Main] = "idle"
    /\ inClosed' = TRUE
    /\ pushCtrl' = Cancel(pushCtrl)
    /\ atClose' = [pushed |-> pushed, cleared |-> cleared]
    /\ pc' = [pc EXCEPT ![Main] = "sd_wait_push"]
    /\ UNCHANGED <<limit, family, spin, prio, peeked, pq, counters, mu, item, deferred, held, timer,
                   outClosed, closePushClosed, noticesClosed, popCtrl, outerDone,
                   outList, made, clears, clearRet, pastPush, fault>>

\* the wg.Wait() of c.pushCtrl.Shutdown(), close(c.closePush), the cancel of
\* c.popCtrl.Shutdown()
ShutdownWaitPush ==
    /\ fault = NoFault
    /\ pc[Main] = "sd_wait_push"
    /\ Exited(pushCtrl)
    /\ closePushClosed' = TRUE
    /\ popCtrl' = Cancel(popCtrl)
    /\ pc' = [pc EXCEPT ![Main] = "sd_wait_pop"]
    /\ UNCHANGED <<limit, family, spin, prio, peeked, pq, counters, mu, item, deferred, held, timer,
                   inClosed, outClosed, noticesClosed, pushCtrl, outerDone,
                   outList, made, history, fault>>

\* the wg.Wait() of c.popCtrl.Shutdown(), close(c.out), close of the three
\* notice channels
ShutdownWaitPop ==
    /\ fault = NoFault
    /\ pc[Main] = "sd_wait_pop"
    /\ Exited(popCtrl)
    /\ outClosed' = TRUE
    /\ noticesClosed' = TRUE
    /\ resched' = TRUE
    /\ pc' = [pc EXCEPT ![Main] = "shutdown"]
    /\ UNCHANGED <<limit, family, spin, prio, peeked, pq, counters, mu, item, deferred, held, timerAt, now,
                   inClosed, closePushClosed, ctrls, outList, made, history,
                   fault>>

\* ------------------------------------------------------------- environment
\* the context given to NewTimeoutChan is cancelled
CancelOuter ==
    /\ fault = NoFault
    /\ ~outerDone
    /\ outerDone' = TRUE
    /\ UNCHANGED <<limit, family, spin, prio, peeked, pq, counters, mu, pc, item, deferred, held, timer,
                   chans, pushCtrl, popCtrl, outList, made, history, fault>>

\* time passes
Tick ==
    /\ fault = NoFault
    /\ now < MaxTime
    /\ now' = now + 1
    /\ UNCHANGED <<limit, family, spin, prio, peeked, pq, counters, mu, pc, item, deferred, held, resched,
                   timerAt, chans, ctrls, outList, made, history, fault>>

Next ==
    \/ \E p \in Pushers : PushLock(p)
    \/ \E p \in Pushers : PushCount(p)
    \/ \E p \in Pushers : PushSend(p)
    \/ \E p \in Producers, d \in 0..MaxDeadline : ProducerSend(p, d)
    \/ \E p \in Producers, d \in 0..MaxDeadline : ProducerPush(p, d)
    \/ \E p \in Producers : ProducerSendClosed(p)
    \/ \E p \in Producers : IntakeRecv(p)
    \/ IntakeInClosed
    \/ IntakeCancelled
    \/ IntakeLen
    \/ \E s \in {Release, Main} : ResumePushSend(s)
    \/ ReleaseClosePush
    \/ ReleaseCloseLen
    \/ ReleaseCancelled
    \/ ReleasePeek
    \/ ReleasePopLock
    \/ ReleasePopHeap
    \/ ReleaseOut
    \/ ReleaseAfterLen
    \/ ReleaseRescheduled
    \/ ReleaseTimer
    \/ ConsumerEnd
    \/ ClearLock
    \/ ClearWaitPush
    \/ ClearWaitPop
    \/ ClearCount
    \/ CloseIn
    \/ CloseWaitPush
    \/ CloseWaitPop
    \/ ShutdownIn
    \/ ShutdownWaitPush
    \/ ShutdownWaitPop
    \/ Tick

Spec == Init /\ [][Next]_vars

\* the same program with a caller that may cancel the outer context
NextOuter == Next \/ CancelOuter

SpecOuter == Init /\ [][NextOuter]_vars

\* ------------------------------------------------- the test scenarios
\* every item handed to the queue so far has been received from Out and no
\* producer is inside a send
RoundDone == made = Len(outList) /\ \A p \in Producers : pc[p] = "idle"

\* every producer has returned from its sends
ProducersIdle == \A p \in Producers : pc[p] = "idle"

\* TestLimitedTimeoutChan: a bounded queue, one producer calling Push for
\* one item after another, a consumer ranging over Out, Close after the
\* last Push has returned
InitLimited == Init /\ limit > 0

NextLimited ==
    \/ \E d \in 0..MaxDeadline : ProducerSend(Caller, d)
    \/ IntakeRecv(Caller)
    \/ PushLock(Intake)
    \/ PushCount(Intake)
    \/ PushSend(Intake)
    \/ IntakeLen
    \/ IntakeInClosed
    \/ ResumePushSend(Release)
    \/ ReleaseClosePush
    \/ ReleaseCloseLen
    \/ ReleasePeek
    \/ ReleasePopLock
    \/ ReleasePopHeap
    \/ ReleaseOut
    \/ ReleaseAfterLen
    \/ ReleaseRescheduled
    \/ ReleaseTimer
    \/ ConsumerEnd
    \/ ProducersIdle /\ CloseIn
    \/ CloseWaitPush
    \/ CloseWaitPop
    \/ Tick

SpecLimited == InitLimited /\ [][NextLimited]_vars

\* TestTimeoutChanChaos: an unlimited queue, several producers sending on
\* In, a consumer ranging over Out, Close after the producers have finished
InitChaos == Init /\ limit = 0

NextChaos ==
    \/ \E p \in Producers, d \in 0..MaxDeadline : InSend(p, d)
    \/ \E p \in Producers : IntakeRecv(p)
    \/ PushLock(Intake)
    \/ PushCount(Intake)
    \/ PushSend(Intake)
    \/ IntakeLen
    \/ IntakeInClosed
    \/ ReleaseClosePush
    \/ ReleaseCloseLen
    \/ ReleasePeek
    \/ ReleasePopLock
    \/ ReleasePopHeap
    \/ ReleaseOut
    \/ ReleaseAfterLen
    \/ ReleaseRescheduled
    \/ ReleaseTimer
    \/ ConsumerEnd
    \/ ProducersIdle /\ CloseIn
    \/ CloseWaitPush
    \/ CloseWaitPop
    \/ Tick

SpecChaos == InitChaos /\ [][NextChaos]_vars

\* TestTimeoutChanStarving: an unlimited queue and a single client that
\* sends one item on In and then receives one item from Out, round after
\* round, and closes the queue after its last round
NextStarving ==
    \/ \E d \in 0..MaxDeadline : RoundDone /\ InSend(Sender, d)
    \/ IntakeRecv(Sender)
    \/ PushLock(Intake)
    \/ PushCount(Intake)
    \/ PushSend(Intake)
    \/ IntakeLen
    \/ IntakeInClosed
    \/ ReleaseClosePush
    \/ ReleaseCloseLen
    \/ ReleasePeek
    \/ ReleasePopLock
    \/ ReleasePopHeap
    \/ ReleaseOut
    \/ ReleaseAfterLen
    \/ ReleaseTimer
    \/ ConsumerEnd
    \/ RoundDone /\ CloseIn
    \/ CloseWaitPush
    \/ CloseWaitPop
    \/ Tick

SpecStarving == InitChaos /\ [][NextStarving]_vars

\* ------------------------------------------------- the spinning sub-phase
\* the working loop of popProcess on one pending item, for any time left and
\* any resolution: peek, start the timer, the timer fires, peek again
InitSpin ==
    /\ InitQueue /\ limit = 0 /\ NoFamily /\ NoPrio
    /\ spin \in [pc : {"peek"}, delta : 1..MaxRemaining,
                 resolution : 0..MaxResolution, wait : {0}]

\* delta > 0: time.NewTimer(delta) after the adjustment of delta
SpinTimer ==
    /\ fault = NoFault
    /\ spin.pc = "peek"
    /\ ~Elapsed(spin.delta)
    /\ spin' = [spin EXCEPT !.pc = "wait",
                            !.wait = SpinFor(spin.delta, spin.resolution)]
    /\ UNCHANGED <<queue, family, prio, now, outerDone, fault>>

\* case <-timer.C: the interval has passed, the loop peeks again
SpinFire ==
    /\ fault = NoFault
    /\ spin.pc = "wait"
    /\ spin' = [spin EXCEPT !.pc = "peek", !.delta = spin.delta - spin.wait,
                            !.wait = 0]
    /\ UNCHANGED <<queue, family, prio, now, outerDone, fault>>

NextSpin == SpinTimer \/ SpinFire

SpecSpin == InitSpin /\ [][NextSpin]_vars

\* --------------------------------------------- a PriorityQueue on its own
\* NewPriorityQueue(desc, size): an empty heap with less = ge or lt
InitPrio ==
    /\ InitQueue /\ limit = 0 /\ NoFamily /\ NoSpin
    /\ prio \in [desc : BOOLEAN, heap : {<<>>}, op : {"new"}, ret : {NoItem}]

\* heap.Push(pq, x)
PrioPush(x) ==
    /\ Len(prio.heap) < MaxHeap
    /\ prio' = [prio EXCEPT !.heap = HeapPush(prio.desc, prio.heap, x),
                            !.op = "push", !.ret = NoItem]
    /\ UNCHANGED <<queue, family, spin, now, outerDone, fault>>

\* heap.Pop(pq) on a queue that is not empty
PrioPop ==
    /\ Len(prio.heap) > 0
    /\ LET r == HeapPop(prio.desc, prio.heap) IN
         prio' = [prio EXCEPT !.heap = r.heap, !.op = "pop", !.ret = r.item]
    /\ UNCHANGED <<queue, family, spin, now, outerDone, fault>>

\* pq.Peek() on a queue that is not empty
PrioPeek ==
    /\ Len(prio.heap) > 0
    /\ prio' = [prio EXCEPT !.op = "peek", !.ret = Peek(prio.heap)]
    /\ UNCHANGED <<queue, family, spin, now, outerDone, fault>>

\* pq.Clear()
PrioClear ==
    /\ LET r == PqClear(prio.heap) IN
         prio' = [prio EXCEPT !.heap = r.heap, !.op = "clear", !.ret = r.l]
    /\ UNCHANGED <<queue, family, spin, now, outerDone, fault>>

NextPrio ==
    \/ \E x \in 0..MaxPriority : PrioPush(x)
    \/ PrioPop
    \/ PrioPeek
    \/ PrioClear

SpecPrio == InitPrio /\ [][NextPrio]_vars

\* ================================================================ Controller
\* c.ctx.Err() of handle h; the context given to NewController is the parent
\* of every context of the family
Err(h) ==
    IF handles[h].err # NoFault THEN handles[h].err
    ELSE IF outerDone THEN Canceled ELSE NoFault

\* Controller.Die
Die(h) == Err(h) # NoFault

\* a plausible slip: Go and With... without the test of c.ctx.Err()
NeverPanics(e) == FALSE

\* `if err := c.ctx.Err(); err != nil { panic(err) }`
Panics(e) == e # NoFault

\* a plausible slip: a deadline that cancels the scope of the whole family
UnderAny(hs, h, a) == TRUE

\* the context of handle h is the context of handle a or derived from it
RECURSIVE Under(_, _, _)
Under(hs, h, a) == h = a \/ (h # Origin /\ Under(hs, hs[h].parent, a))

\* cancellation of the context of handle a with error e reaches every live
\* context derived from it; a cancelled context stops its timer and keeps
\* nothing but its error
CancelTree(hs, a, e) ==
    [x \in Handles |->
        IF hs[x].live /\ hs[x].err = NoFault /\ Under(hs, x, a)
        THEN [live |-> TRUE, parent |-> Origin, dl |-> NoDeadline,
              timer |-> FALSE, err |-> e]
        ELSE hs[x]]

\* a plausible slip: a derived handle with a cancel function of its own
CancelOwn(hs, h) == CancelTree(hs, h, Canceled)

\* c.cancel() through handle h: every handle carries the cancel function of
\* the context NewController made
CancelScope(hs, h) == CancelTree(hs, Origin, Canceled)

\* the context of the handle that op derives from handle h at time t:
\* context.WithValue keeps the parent's deadline; context.WithDeadline keeps
\* it when it is earlier than d, is born expired when d has passed, and
\* otherwise starts a timer
Child(hs, h, op, d, t) ==
    LET pd == hs[h].dl
        base == [live |-> TRUE, parent |-> h, dl |-> pd, timer |-> FALSE,
                 err |-> NoFault]
    IN IF op = "WithValue" \/ (pd # NoDeadline /\ pd < d) THEN base
       ELSE IF d > t THEN [base EXCEPT !.dl = d, !.timer = TRUE]
       ELSE [base EXCEPT !.err = DeadlineExceeded]

FreeWorkers == {w \in Workers : workers[w].pc = "none"}
FreeHandles == {h \in Handles : ~handles[h].live}
Running == {w \in Workers : workers[w].pc = "run"}

\* the client is back from its call; ret: the Shutdown or Wait the client
\* returned from last
Return(c, r) ==
    [calls EXCEPT ![c] = [pc |-> "idle", op |-> "none", h |-> Origin,
                          g |-> "hang", seen |-> {}, ret |-> r]]

\* h.Go(g), h.GoWithRecover(g, rf): the test of c.ctx.Err()
Go(c, op, h, g) ==
    /\ fault = NoFault
    /\ c = Spawner
    /\ calls[c].pc = "idle"
    /\ handles[h].live
    /\ FreeWorkers # {}
    /\ IF Panics(Err(h))
       THEN /\ fault' = Err(h)
            /\ family' = [family EXCEPT !.calls[c] =
                             [@ EXCEPT !.pc = "panicked", !.op = op, !.h = h]]
       ELSE /\ family' = [family EXCEPT !.calls[c] =
                             [@ EXCEPT !.pc = "add", !.op = op, !.h = h, !.g = g]]
            /\ UNCHANGED fault
    /\ UNCHANGED <<queue, spin, prio, now, outerDone>>

\* Go, GoWithRecover: c.wg.Add(1) and the go statement
GoAdd(c) ==
    /\ fault = NoFault
    /\ calls[c].pc = "add"
    /\ LET w == CHOOSE x \in FreeWorkers : TRUE IN
       family' = [family EXCEPT
                     !.wg = wg + 1,
                     !.workers[w] = [pc |-> "run", h |-> calls[c].h,
                                     g |-> calls[c].g],
                     !.calls = Return(c, calls[c].ret)]
    /\ UNCHANGED <<queue, spin, prio, now, outerDone, fault>>

\* h.WithValue(k, v), h.WithDeadline(d), h.WithTimeout(d)
With(c, op, h, d) ==
    /\ fault = NoFault
    /\ c = Spawner
    /\ calls[c].pc = "idle"
    /\ handles[h].live
    /\ op = "WithValue" => d = 0
    /\ FreeHandles # {}
    /\ IF Panics(Err(h))
       THEN /\ fault' = Err(h)
            /\ family' = [family EXCEPT !.calls[c] =
                             [@ EXCEPT !.pc = "panicked", !.op = op, !.h = h]]
       ELSE /\ LET x == CHOOSE y \in FreeHandles : TRUE
                   dl == IF op = "WithTimeout" THEN now + d ELSE d
               IN family' = [family EXCEPT !.handles[x] =
                                Child(handles, h, op, dl, now)]
            /\ UNCHANGED fault
    /\ UNCHANGED <<queue, spin, prio, now, outerDone>>

\* h.Shutdown(): c.cancel(); seen: the workers spawned before the call that
\* have not returned
Shutdown(c, h) ==
    /\ fault = NoFault
    /\ c = Stopper
    /\ calls[c].pc = "idle"
    /\ handles[h].live
    /\ family' = [family EXCEPT
                     !.handles = CancelScope(handles, h),
                     !.calls[c] = [@ EXCEPT !.pc = "wait", !.op = "Shutdown",
                                            !.h = h, !.seen = Running]]
    /\ UNCHANGED <<queue, spin, prio, now, outerDone, fault>>

\* Shutdown: c.wg.Wait() returns
ShutdownWait(c) ==
    /\ fault = NoFault
    /\ calls[c].pc = "wait"
    /\ calls[c].op = "Shutdown"
    /\ wg = 0
    /\ family' = [family EXCEPT !.calls = Return(c, "Shutdown")]
    /\ UNCHANGED <<queue, spin, prio, now, outerDone, fault>>

\* h.Wait(): the call, blocked in c.wg.Wait()
Wait(c, h) ==
    /\ fault = NoFault
    /\ c = Stopper
    /\ calls[c].pc = "idle"
    /\ handles[h].live
    /\ family' = [family EXCEPT !.calls[c] =
                     [@ EXCEPT !.pc = "wait", !.op = "Wait", !.h = h,
                               !.seen = Running]]
    /\ UNCHANGED <<queue, spin, prio, now, outerDone, fault>>

\* Wait: c.wg.Wait() returns
WaitWg(c) ==
    /\ fault = NoFault
    /\ calls[c].pc = "wait"
    /\ calls[c].op = "Wait"
    /\ wg = 0
    /\ family' = [family EXCEPT !.calls[c] =
                     [@ EXCEPT !.pc = "cancel", !.seen = {}]]
    /\ UNCHANGED <<queue, spin, prio, now, outerDone, fault>>

\* Wait: the deferred c.cancel()
WaitCancel(c) ==
    /\ fault = NoFault
    /\ calls[c].pc = "cancel"
    /\ family' = [family EXCEPT
                     !.handles = CancelScope(handles, calls[c].h),
                     !.calls = Return(c, "Wait")]
    /\ UNCHANGED <<queue, spin, prio, now, outerDone, fault>>

\* the worker's function returns and the deferred c.wg.Done() runs
WorkerExit(w) ==
    family' = [family EXCEPT
                  !.workers[w] = [pc |-> "done", h |-> Origin, g |-> "hang"],
                  !.wg = wg - 1]

\* a worker like hangingAround: <-ctx.Done(), then return
WorkerObserve(w) ==
    /\ fault = NoFault
    /\ workers[w].pc = "run"
    /\ workers[w].g = "hang"
    /\ Die(workers[w].h)
    /\ WorkerExit(w)
    /\ UNCHANGED <<queue, spin, prio, now, outerDone, fault>>

\* a worker that returns on its own
WorkerReturn(w) ==
    /\ fault = NoFault
    /\ workers[w].pc = "run"
    /\ workers[w].g = "work"
    /\ WorkerExit(w)
    /\ UNCHANGED <<queue, spin, prio, now, outerDone, fault>>

\* the timer of a context made by WithDeadline or WithTimeout fires
DeadlineFire(h) ==
    /\ fault = NoFault
    /\ handles[h].live
    /\ handles[h].timer
    /\ now >= handles[h].dl
    /\ Err(h) = NoFault
    /\ family' = [family EXCEPT
                     !.handles = CancelTree(handles, h, DeadlineExceeded)]
    /\ UNCHANGED <<queue, spin, prio, now, outerDone, fault>>

\* a program that makes a Controller; the TimeoutChan it also holds is
\* left alone
InitController == InitQueue /\ limit = 0 /\ InitFamily /\ NoSpin /\ NoPrio

NextController ==
    \/ \E c \in Clients, op \in GoOps, h \in Handles, g \in Goroutines :
          Go(c, op, h, g)
    \/ \E c \in Clients : GoAdd(c)
    \/ \E c \in Clients, op \in WithOps, h \in Handles, d \in 0..MaxDeadline :
          With(c, op, h, d)
    \/ \E c \in Clients, h \in Handles : Shutdown(c, h)
    \/ \E c \in Clients : ShutdownWait(c)
    \/ \E c \in Clients, h \in Handles : Wait(c, h)
    \/ \E c \in Clients : WaitWg(c)
    \/ \E c \in Clients : WaitCancel(c)
    \/ \E w \in Workers : WorkerObserve(w)
    \/ \E w \in Workers : WorkerReturn(w)
    \/ \E h \in Handles : DeadlineFire(h)
    \/ CancelOuter
    \/ Tick

SpecController == InitController /\ [][NextController]_vars

\* ==================================================================== claims
\* the deadlines in sequence s never decrease
NonDecreasing(s) == \A i \in 1..(Len(s) - 1) : s[i] <= s[i + 1]

\* C1: whenever no goroutine is inside a critical section of push, pop or
\* Clear, Pushed = Popped + Cleared + the number of pending items; and no
\* step ever decreases Pushed, Popped or Cleared.
C1_CountersBalanced ==
    /\ [](mu = NoLock => pushed = popped + cleared + Len(pq))
    /\ [][pushed' >= pushed /\ popped' >= popped /\ cleared' >= cleared]_vars

\* a quiescent state after pushes, a pop and a Clear that removed an item
C1_Witness ==
    /\ mu = NoLock
    /\ popped > 0 /\ cleared > 0
    /\ pushed = popped + cleared + Len(pq)

\* C2: with limit L > 0 the heap never holds more than L items.
C2_BoundedLength == limit > 0 => Len(pq) <= limit

\* a bounded heap filled to its limit of two, the intake suspended
C2_Witness ==
    /\ limit = Cap /\ Len(pq) = limit
    /\ pc[Intake] = "suspend"

\* C3 as stated: on an unlimited TimeoutChan the deadlines received from Out
\* never decrease, whatever the deadlines pushed.
C3_OutputOrdered == limit = 0 => NonDecreasing(outList)

\* C3 amended: on an unlimited TimeoutChan on which every item is inserted
\* no later than its deadline, the deadlines received from Out never decrease.
C3_OutputOrderedTimely == (limit = 0 /\ ~pastPush) => NonDecreasing(outList)

\* two items with different deadlines received in deadline order, none of
\* them inserted late
C3_Witness ==
    /\ limit = 0 /\ ~pastPush
    /\ Len(outList) = 2 /\ outList[1] < outList[2]

\* C4: an item popped by the release process (sent on Out, or waiting to be)
\* was popped no earlier than its deadline.
C4_NotBeforeDeadline == held # NoItem => held <= now

\* an item with a deadline in the future when pushed, popped while Close
\* drains the queue
C4_Witness ==
    /\ held > 0
    /\ pc[Release] = "out_send"
    /\ closePushClosed

\* C5: when Close has returned, the number of items received from Out is
\* Pushed - Cleared as they were when Close was called (every item created
\* had been inserted by then): no pushed item is lost.
C5_CloseDeliversAll ==
    (pc[Main] = "closed" /\ atClose.pushed = made)
        => Len(outList) = atClose.pushed - atClose.cleared

\* C6: Shutdown is never left waiting for a process that cannot exit: while
\* it waits, with no producer inside a push and no panic, some step is
\* possible.
C6_ShutdownReturns ==
    (/\ pc[Main] \in {"sd_wait_push", "sd_wait_pop"}
     /\ \A p \in Producers : pc[p] = "idle"
     /\ fault = NoFault)
        => ENABLED Next

\* C7: once Shutdown has returned, Out is closed, neither process runs,
\* Popped <= Pushed, Cleared is what it was when Shutdown was called, no
\* panic has been raised unless a producer's push was still under way, and
\* from then on nothing is received from Out and Popped and Cleared stay.
C7_AfterShutdown ==
    /\ [](pc[Main] = "shutdown" =>
            /\ outClosed
            /\ pc[Intake] = "done" /\ pc[Release] = "done"
            /\ popped <= pushed
            /\ cleared = atClose.cleared
            /\ ((\A p \in Producers : pc[p] = "idle") => fault = NoFault))
    /\ [][pc[Main] = "shutdown" =>
            outList' = outList /\ popped' = popped /\ cleared' = cleared]_vars

\* Shutdown has returned and left items in the heap
C7_Witness ==
    /\ pc[Main] = "shutdown"
    /\ Len(pq) > 0
    /\ fault = NoFault

ClearPcs == {"clear_wait_push", "clear_wait_pop", "clear_cnt", "clear_send"}

\* C8: Clear returns the number of items pending when it empties the heap,
\* adds exactly that number to Cleared, leaves the heap empty, and Pushed
\* and Popped do not change while Clear runs.
C8_ClearCountsRemoved ==
    [][/\ (pc[Main] = "clear_wait_pop" /\ pc'[Main] = "clear_cnt")
            => (clearRet' = Len(pq) /\ pq' = <<>>)
       /\ (pc[Main] = "clear_cnt" /\ pc'[Main] # "clear_cnt")
            => (cleared' = cleared + clearRet /\ pq' = <<>>)
       /\ (pc[Main] \in ClearPcs)
            => (pushed' = pushed /\ popped' = popped)]_vars

\* Clear has returned after removing an item, with an earlier item popped
C8_Witness ==
    /\ pc[Main] = "idle"
    /\ clearRet > 0 /\ cleared = clearRet
    /\ popped > 0
    /\ pq = <<>>

\* C9: a Clear that found the heap at its limit is never left blocked on its
\* resume-intake notice: while it is sending the notice, some step is possible.
C9_ClearAtLimitReturns ==
    (pc[Main] = "clear_send" /\ fault = NoFault) => ENABLED Next

\* C10: while a bounded heap holds exactly limit items the intake process is
\* not receiving from In, and a writer blocked on In stays blocked.
C10_FullBlocksWriters ==
    /\ []((limit > 0 /\ Len(pq) = limit) => pc[Intake] # "work")
    /\ [][\A p \in Producers :
            (limit > 0 /\ Len(pq) = limit /\ pc[p] = "send") => pc'[p] = "send"]_vars

\* the heap is full, the intake suspended and a writer blocked on In
C10_Witness ==
    /\ limit > 0 /\ Len(pq) = limit
    /\ pc[Intake] = "suspend"
    /\ pc[Sender] = "send"

\* C11: with a bounded queue, a consumer ranging over Out and time advancing,
\* one producer pushing item after item is never blocked for ever: as long
\* as Close has not returned some step of the scenario is possible (a Push
\* returns, an item is released, Close proceeds), and when Close has returned
\* Pushed and Popped both equal the number of items pushed.
C11_LimitedNeverStuck ==
    /\ (fault = NoFault /\ pc[Main] # "closed") => ENABLED NextLimited
    /\ pc[Main] = "closed" => (pushed = made /\ popped = made)

\* C14: with an unlimited queue, several producers sending on In and a
\* consumer ranging over Out, the scenario never deadlocks: as long as Close
\* has not returned some step is possible, and when Close has returned
\* Pushed and Popped equal the number of items sent and Cleared is 0.
C14_ChaosNeverStuck ==
    /\ (fault = NoFault /\ pc[Main] # "closed") => ENABLED NextChaos
    /\ pc[Main] = "closed" => (pushed = made /\ popped = made /\ cleared = 0)

\* C15: with an unlimited queue and a single client that alternates one send
\* on In with one receive from Out, every round completes and the final Close
\* returns: as long as Close has not returned some step is possible.
C15_RoundsComplete ==
    (fault = NoFault /\ pc[Main] # "closed") => ENABLED NextStarving

\* C12: on a bounded queue fed by one producer and then closed, every item
\* the release process pops has the earliest deadline among the items
\* resident in the heap at the moment of the pop (the heap then holds the
\* window of at most limit buffered items).
C12_PopsResidentMinimum ==
    [][(held = NoItem /\ held' # NoItem)
          => (Len(pq) <= limit /\ \A i \in 1..Len(pq) : held' <= pq[i])]_vars

\* a pop that had to choose: the item taken is strictly earlier than one
\* that stayed behind in a bounded queue
C12_Witness ==
    limit > 0 /\ held # NoItem /\ Len(pq) > 0 /\ held < Peek(pq)

\* C13: a push of a strictly earlier deadline makes the release process
\* abandon the timer it is waiting on: once push has returned, a release
\* process that waits while the earliest pending deadline has been reached
\* either has the reschedule notice pending or its timer has already
\* expired, so the new item is not held back until an old timer; and a
\* pending notice ends the wait at once.
C13_RescheduleOnEarlier ==
    /\ (pc[Release] = "wait" /\ mu = NoLock /\ Len(pq) > 0 /\ now >= Peek(pq))
          => (resched \/ now >= timerAt)
    /\ (pc[Release] = "wait" /\ resched /\ fault = NoFault)
          => ENABLED ReleaseRescheduled

\* the release process waits on a timer set for a later item while the
\* notice of an earlier deadline, now at the top of the heap, is pending
C13_Witness ==
    /\ pc[Release] = "wait" /\ resched /\ mu = NoLock /\ ~noticesClosed
    /\ Len(pq) > 1 /\ Peek(pq) < timerAt /\ now < timerAt

\* C16: Close returns only after every buffered item has been popped and
\* received from Out: at the step in which Close returns, with no call of
\* Push under way, the heap is empty, the release process holds no item,
\* Popped = Pushed - Cleared, and if Clear was never called Cleared = 0 and
\* every popped item has been received from Out.
C16_CloseDrains ==
    [][(pc[Main] = "close_wait_pop" /\ pc'[Main] = "closed"
          /\ \A p \in Producers : pc[p] \in {"idle", "send"})
       => /\ Len(pq') = 0
          /\ held' = NoItem
          /\ popped' = pushed' - cleared'
          /\ clears' = 0 => (cleared' = 0 /\ Len(outList') = popped')]_vars

\* Close has returned after items that were still buffered when it was
\* called have been received from Out
C16_Witness ==
    /\ pc[Main] = "closed" /\ fault = NoFault
    /\ atClose.pushed > 0 /\ Len(outList) = atClose.pushed /\ popped = pushed
    /\ clears = 0

\* C17: Shutdown cancels the scope at once: while it waits, every worker
\* spawned before the call that is still running has a cancelled context;
\* it returns only when all of them have returned, and then Die() is true on
\* every handle; and a Wait called after Shutdown has returned is not
\* blocked (the live-worker count is zero).
C17_ShutdownContract ==
    /\ [](\A c \in Clients :
            (calls[c].op = "Shutdown" /\ calls[c].pc = "wait")
               => \A w \in calls[c].seen \cap Running : Die(workers[w].h))
    /\ [][\A c \in Clients :
            (calls[c].op = "Shutdown" /\ calls'[c].pc = "idle")
               => /\ \A w \in calls[c].seen : workers'[w].pc = "done"
                  /\ \A h \in Handles : handles'[h].live => Die(h)']_vars
    /\ [](\A c \in Clients :
            (calls[c].ret = "Shutdown" /\ calls[c].op = "Wait"
                /\ calls[c].pc = "wait") => wg = 0)

\* C18: Wait blocks until the live-worker count is zero and no worker of
\* the family is running, only then cancels the shared scope, never while a
\* worker with a live context is still running; and when it returns Die()
\* is true on the origin handle.
C18_WaitContract ==
    [][\A c \in Clients :
         /\ (calls[c].op = "Wait" /\ calls[c].pc = "wait"
                /\ calls'[c].pc = "cancel") => (wg = 0 /\ Running = {})
         /\ (calls[c].pc = "cancel" /\ calls'[c].pc = "idle")
               => /\ \A w \in Running : Die(workers[w].h)
                  /\ Die(Origin)']_vars

\* C19: Go, GoWithRecover, WithValue, WithDeadline and WithTimeout called on
\* a handle whose context is already cancelled panic with the context's
\* error: the call goes no further, no worker is started, the live-worker
\* count is unchanged and no derived handle comes into being; so a call that
\* goes on to add a worker, and every new handle, come from a live handle.
C19_DeadHandlePanics ==
    [][/\ \A c \in Clients :
             (calls[c].pc = "idle" /\ calls'[c].pc \in {"add", "panicked"}
                 /\ Die(calls'[c].h))
                => /\ calls'[c].pc = "panicked"
                   /\ fault' = Err(calls'[c].h)
       /\ \A x \in Handles :
             (~handles[x].live /\ handles'[x].live)
                => (~Die(handles'[x].parent) /\ fault' = NoFault)
       /\ fault' \in {Canceled, DeadlineExceeded}
             => (wg' = wg /\ workers' = workers /\ handles' = handles)]_vars

\* a derivation on a handle of a family on which Wait has returned panicked
C19_Witness ==
    /\ calls[Spawner].pc = "panicked" /\ calls[Spawner].op \in WithOps
    /\ calls[Spawner].h # Origin
    /\ calls[Stopper].ret = "Wait"
    /\ fault = Canceled /\ wg = 0

\* C20: the handles of a family share one cancel function and one worker
\* counter: the counter equals the number of running workers whatever
\* handle spawned them; the cancel of a Shutdown called on any handle makes
\* Die() true on every handle and cancels the context of every running
\* worker; and that Shutdown returns only when the workers running at its
\* call, from whatever handle, have returned.
C20_SharedAuthority ==
    /\ [](wg = Cardinality(Running))
    /\ [][\A c \in Clients :
            /\ (calls[c].pc = "idle" /\ calls'[c].op = "Shutdown")
                  => /\ \A h \in Handles : handles'[h].live => Die(h)'
                     /\ \A w \in Running : Die(workers[w].h)'
            /\ (calls[c].op = "Shutdown" /\ calls'[c].pc = "idle")
                  => \A w \in calls[c].seen : workers'[w].pc = "done"]_vars

\* Shutdown was called on a derived handle while a worker spawned from
\* another handle and a worker spawned from a third were running
C20_Witness ==
    /\ calls[Stopper].op = "Shutdown" /\ calls[Stopper].h # Origin
    /\ \E w \in calls[Stopper].seen :
          workers[w].pc = "run" /\ workers[w].h = Origin
    /\ \E w \in calls[Stopper].seen : workers[w].pc = "done"
    /\ Cardinality(calls[Stopper].seen) = 2
    /\ \A h \in Handles : handles[h].live /\ Die(h)

\* C21: Clear on a live TimeoutChan always returns: while it waits for the
\* old intake process or the old release process to exit, some step is
\* possible; and at its return the heap is empty and one fresh intake
\* process and one fresh release process are running under new controllers.
C21_ClearReturns ==
    /\ []((pc[Main] \in {"clear_wait_push", "clear_wait_pop"}
             /\ fault = NoFault) => ENABLED Next)
    /\ [][(pc[Main] = "clear_cnt" /\ pc'[Main] # "clear_cnt" /\ fault' = NoFault)
            => /\ pq' = <<>>
               /\ pc'[Intake] = "work" /\ pc'[Release] = "suspend"
               /\ pushCtrl' = NewCtrl /\ popCtrl' = NewCtrl]_vars

\* the smaller and the larger of two integers
Min2(a, b) == IF a < b THEN a ELSE b
Max2(a, b) == IF a > b THEN a ELSE b

\* C22 as stated: while the first deadline has not elapsed, the interval the
\* release process waits is the smaller of half the time left and the
\* resolution, and never more than the time left.
C22_WaitIsSmaller ==
    spin.pc = "wait"
       => /\ spin.wait = Min2(GoDiv(spin.delta, 2), spin.resolution)
          /\ spin.wait <= spin.delta

\* C22 amended: the interval is the larger of half the time left and the
\* resolution, cut down to the time left: half the time left while that
\* exceeds the resolution, then the resolution, and the whole time left once
\* it is within the resolution; it is never negative and never more than
\* the time left.
C22_WaitIsLargerCapped ==
    spin.pc = "wait"
       => /\ spin.wait = Min2(spin.delta,
                              Max2(GoDiv(spin.delta, 2), spin.resolution))
          /\ 0 <= spin.wait /\ spin.wait <= spin.delta

\* a wait of half the time left, longer than the resolution
C22_Witness ==
    /\ spin.pc = "wait" /\ spin.resolution > 0
    /\ spin.wait = GoDiv(spin.delta, 2) /\ spin.wait > spin.resolution



\* ------------------------------------------------------------------- C23
\* C23 as stated: whenever the release process waits on its timer and the
\* reschedule channel of its last peek is not closed, the earliest deadline
\* in the heap is not earlier than the deadline that peek read.
C23_NoStaleMinimum ==
    (pc[Release] = "wait" /\ ~resched /\ pq # <<>> /\ fault = NoFault)
        => Peek(pq) >= peeked

\* C23 amended: the same at every moment at which no push is inside its
\* critical section, between heap.Push and the deferred close of the
\* reschedule channel; a peek, which needs the lock, never sees the window.
C23_NoStaleMinimumOutsidePush ==
    (pc[Release] = "wait" /\ ~resched /\ pq # <<>> /\ mu \notin Pushers
     /\ fault = NoFault)
        => Peek(pq) >= peeked

\* the release process waits with the channel of its last peek open while
\* the intake has just finished a push that did not lower the minimum
C23_Witness ==
    /\ pc[Release] = "wait" /\ ~resched /\ mu = NoLock /\ pc[Intake] = "len"
    /\ Len(pq) >= 2 /\ Peek(pq) = peeked /\ now < timerAt /\ fault = NoFault


\* ------------------------------------------------------------------- C24
\* the positions at which the release process needs c.mu to go on
ReleaseNeedsLock == {"peek", "pop_lock", "after_len", "close_len"}

\* C24: a push registers the resume-release notice exactly when it found the
\* heap empty (the heap then holds its item alone), and while the push is
\* sending the notice inside its critical section the release process can
\* still receive it: it has not exited and is not waiting for the lock the
\* push holds.
C24_EmptyPushNotifies ==
    /\ \A p \in Pushers :
          (pc[p] \in {"push_cnt", "push_send"} /\ fault = NoFault)
              => (deferred[p] = "resumePop" <=> Len(pq) = 1)
    /\ \A p \in Pushers :
          (pc[p] = "push_send" /\ fault = NoFault)
              => pc[Release] \notin (ReleaseNeedsLock \cup {"done"})


\* ------------------------------------------------------------------- C25
\* no item comes before its parent in the order of the queue
IsHeap(desc, h) ==
    \A j \in 1..(Len(h) - 1) : ~Less(desc, h, j, (j - 1) \div 2)

\* the item every other item of h does not come before
IsTop(desc, h, x) ==
    /\ \E i \in 1..Len(h) : h[i] = x
    /\ \A i \in 1..Len(h) : IF desc THEN h[i] <= x ELSE x <= h[i]

\* how many times x is in h
Count(h, x) == Cardinality({i \in 1..Len(h) : h[i] = x})

\* h2 holds the items of h1 and x once more
AddsOne(h1, h2, x) ==
    /\ Len(h2) = Len(h1) + 1
    /\ \A i \in 1..Len(h2) :
          Count(h2, h2[i]) = Count(h1, h2[i]) + (IF h2[i] = x THEN 1 ELSE 0)

\* C25: the PriorityQueue keeps the heap property after every operation;
\* push adds its item; pop returns and removes the item of lowest priority
\* of an ascending queue and of highest priority of a descending queue;
\* Peek returns that same item and removes nothing; Clear returns the
\* length the queue had and leaves it empty.
C25_PriorityQueue ==
    /\ [](prio # <<>> => IsHeap(prio.desc, prio.heap))
    /\ [][prio'.op = "push"
            => \E x \in 0..MaxPriority :
                  AddsOne(prio.heap, prio'.heap, x)]_vars
    /\ [][prio'.op = "pop"
            => /\ IsTop(prio.desc, prio.heap, prio'.ret)
               /\ AddsOne(prio'.heap, prio.heap, prio'.ret)]_vars
    /\ [][prio'.op = "peek"
            => /\ IsTop(prio.desc, prio.heap, prio'.ret)
               /\ prio'.heap = prio.heap]_vars
    /\ [][prio'.op = "clear"
            => (prio'.ret = Len(prio.heap) /\ prio'.heap = <<>>)]_vars

\* a pop has taken the top of a descending queue that still holds three
\* items of three priorities
C25_Witness ==
    /\ prio # <<>> /\ prio.desc /\ prio.op = "pop" /\ prio.ret = MaxPriority
    /\ Len(prio.heap) = 3
    /\ Cardinality({prio.heap[i] : i \in 1..Len(prio.heap)}) = 3


\* ------------------------------------------------------------------- C26
\* C26: when Go runs concurrently with Shutdown on handles of one family,
\* no worker is running once Shutdown has returned: at the return of
\* Shutdown no Go is left between its check of the context and its
\* wg.Add(1) (it has panicked, or its worker has been counted and has
\* returned), and from then on no worker of the family runs.
C26_NoWorkerAfterShutdown ==
    /\ [][\A c \in Clients :
            (calls[c].op = "Shutdown" /\ calls[c].pc = "wait"
                /\ calls'[c].pc = "idle")
               => /\ Running' = {}
                  /\ \A g \in Clients : calls'[g].pc # "add"]_vars
    /\ [](\A c \in Clients : calls[c].ret = "Shutdown" => Running = {})


\* ------------------------------------------------------------------- C27
\* C27: on an unlimited TimeoutChan on which Clear is never called and every
\* item is inserted no later than its deadline, the deadlines received from
\* Out never decrease, also across a stall of the consumer: the item the
\* release process has popped and is waiting to send is not earlier than
\* any item received before it and not later than any item in the heap,
\* the items pushed since the pop included.
C27_OrderedAcrossStall ==
    (limit = 0 /\ clears = 0 /\ ~pastPush)
        => /\ NonDecreasing(outList)
           /\ held # NoItem
                => /\ \A i \in 1..Len(outList) : outList[i] <= held
                   /\ \A i \in 1..Len(pq) : held <= pq[i]

\* the consumer has not taken the item the release process popped, and an
\* item inserted since the pop is in the heap
C27_Witness ==
    /\ limit = 0 /\ clears = 0 /\ ~pastPush
    /\ pc[Release] = "out_send" /\ held # NoItem
    /\ pc[Intake] = "push_cnt" /\ popped = 1 /\ pushed = 1
    /\ Len(pq) = 1 /\ held < pq[1]


Due == {a \in Handles : handles[a].live /\ handles[a].timer
                            /\ now >= handles[a].dl}

\* the live handles whose context a step ends with "deadline exceeded"
Expiring == {x \in Handles : /\ handles[x].live /\ handles[x].err = NoFault
                              /\ handles'[x].err = DeadlineExceeded}

\* C29: the elapse of the deadline or timeout of a derived handle cancels
\* the context of that handle and of the handles derived from it, nothing
\* else: the step leaves the origin handle, every other handle, the workers
\* and the live-worker count as they were. The origin's context is never
\* ended by a deadline, and it is cancelled only once Shutdown or Wait has
\* been called on some handle (or the context given to NewController was
\* cancelled); until then Go on the origin handle goes on to start its
\* worker, while Go on a handle whose deadline has elapsed panics with
\* "deadline exceeded".
C29_DeadlineStaysLocal ==
    /\ [][Expiring # {}
            => /\ Origin \notin Expiring
               /\ \A x \in Expiring : \E a \in Due : Under(handles, x, a)
               /\ \A x \in Handles \ Expiring : handles'[x] = handles[x]
               /\ workers' = workers /\ wg' = wg
               /\ Die(Origin)' = Die(Origin)]_vars
    /\ [](handles[Origin].err # DeadlineExceeded)
    /\ [](handles[Origin].err # NoFault
            => \E c \in Clients : \/ calls[c].op \in {"Shutdown", "Wait"}
                                  \/ calls[c].ret \in {"Shutdown", "Wait"})
    /\ [][\A c \in Clients :
            (calls[c].pc = "idle" /\ calls'[c].op \in GoOps
                /\ calls'[c].pc \in {"add", "panicked"})
               => /\ (calls'[c].h = Origin /\ ~Die(Origin))
                        => calls'[c].pc = "add"
                  /\ handles[calls'[c].h].err = DeadlineExceeded
                        => (calls'[c].pc = "panicked"
                              /\ fault' = DeadlineExceeded)]_vars

\* the deadline of a derived handle has elapsed; the origin is alive, a
\* worker spawned from it before is still running and a Go on it has
\* passed its test
C29_Witness ==
    /\ \E h \in Handles \ {Origin} :
          handles[h].live /\ handles[h].err = DeadlineExceeded
    /\ ~Die(Origin) /\ now > 0
    /\ \E w \in Running : workers[w].h = Origin /\ workers[w].g = "hang"
    /\ calls[Spawner].pc = "add" /\ calls[Spawner].h = Origin
    /\ \A c \in Clients : calls[c].ret = "none"
    /\ fault = NoFault

====
